---- MODULE Spec2Model ----
(***************************************************************************)
(* A model of framehop's SEH unwinding core:                               *)
(*   - UnwindRuleX86_64::exec          (src/src/x86_64/unwind_rule.rs)     *)
(*   - seh_to_unwind_rule, ArchX86_64::unwind_frame (src/src/x86_64/seh.rs)*)
(*   - SehUnwinder::unwind_frame       (src/src/seh.rs)                    *)
(*                                                                         *)
(* Machine words (u64 in the source) are modelled WordBits wide, so that   *)
(* the checked additions overflow and the unchecked subtraction underflows *)
(* inside the model.  Stack slots keep their size of 8 bytes.              *)
(***************************************************************************)
EXTENDS Integers, Sequences, FiniteSets, TLC

VARIABLES
    pc,          \* "ready" before the modelled call, "done" after it
    regs,        \* the UnwindRegsX86_64 register file: [ip, sp, bp]
    stack,       \* what read_stack answers for each address
    call,        \* the arguments of the exec call that was made
    result,      \* what the exec call returned
    frame_in,    \* the arguments of the unwind_frame call
    frame_out,   \* what ArchX86_64::unwind_frame and SehUnwinder::unwind_frame returned
    synth_in,    \* the chunks given to seh_to_unwind_rule
    synth_out    \* what seh_to_unwind_rule returned

vars == <<pc, regs, stack, call, result, frame_in, frame_out, synth_in, synth_out>>

(***************************************************************************)
(* Bounds of the model.                                                    *)
(***************************************************************************)
WordBits == 5
MaxSpOffsetBy8 == 2
MaxBpOffsetBy8 == 1

WordMax == 2^WordBits - 1
Word == 0..WordMax

(***************************************************************************)
(* The register file.                                                      *)
(***************************************************************************)
UnwindRegsX86_64(ip, sp, bp) == [ip |-> ip, sp |-> sp, bp |-> bp]

(***************************************************************************)
(* The rules.  A field a variant does not have is 0.                       *)
(***************************************************************************)
JustReturn == [tag |-> "JustReturn", sp_offset_by_8 |-> 0, bp_storage_offset_from_sp_by_8 |-> 0]
JustReturnIfFirstFrameOtherwiseFp ==
    [tag |-> "JustReturnIfFirstFrameOtherwiseFp", sp_offset_by_8 |-> 0, bp_storage_offset_from_sp_by_8 |-> 0]
OffsetSp(k) == [tag |-> "OffsetSp", sp_offset_by_8 |-> k, bp_storage_offset_from_sp_by_8 |-> 0]
OffsetSpAndRestoreBp(k, j) ==
    [tag |-> "OffsetSpAndRestoreBp", sp_offset_by_8 |-> k, bp_storage_offset_from_sp_by_8 |-> j]
UseFramePointer == [tag |-> "UseFramePointer", sp_offset_by_8 |-> 0, bp_storage_offset_from_sp_by_8 |-> 0]

UnwindRuleX86_64 ==
    {JustReturn, JustReturnIfFirstFrameOtherwiseFp, UseFramePointer}
    \cup {OffsetSp(k) : k \in 0..MaxSpOffsetBy8}
    \cup {OffsetSpAndRestoreBp(k, j) : k \in 0..MaxSpOffsetBy8, j \in (0 - MaxBpOffsetBy8)..MaxBpOffsetBy8}

(***************************************************************************)
(* Results of exec: Ok(Some(ra)), Ok(None), Err(e), or a panic.  `after`   *)
(* is the register file when the call ends.  `did` records how far the     *)
(* call got: the new_sp it computed, the address it read the caller's bp   *)
(* from, and the address it read the return address from (NoAddr for a     *)
(* step the call did not reach).                                           *)
(***************************************************************************)
NoAddr == 0 - 1
Did(new_sp, bp_addr, ra_addr) == [new_sp |-> new_sp, bp_addr |-> bp_addr, ra_addr |-> ra_addr]
OkSome(ra, after, did) ==
    [tag |-> "Some", val |-> ra, err |-> "", addr |-> NoAddr, after |-> after, did |-> did]
OkNone(after, did) ==
    [tag |-> "None", val |-> 0, err |-> "", addr |-> NoAddr, after |-> after, did |-> did]
ErrOf(e, after, did) ==
    [tag |-> "Err", val |-> 0, err |-> e, addr |-> NoAddr, after |-> after, did |-> did]
CouldNotReadStack(a, after, did) ==
    [tag |-> "Err", val |-> 0, err |-> "CouldNotReadStack", addr |-> a, after |-> after, did |-> did]
Panicked(after, did) ==
    [tag |-> "Panic", val |-> 0, err |-> "", addr |-> NoAddr, after |-> after, did |-> did]
NotCalled ==
    [tag |-> "NotCalled", val |-> 0, err |-> "", addr |-> NoAddr,
     after |-> UnwindRegsX86_64(0, 0, 0), did |-> Did(NoAddr, NoAddr, NoAddr)]

(***************************************************************************)
(* u64::checked_add and crate::add_signed::checked_add_signed: the sum, or *)
(* Overflowed when it is not a word.                                       *)
(***************************************************************************)
Overflowed == 0 - 1
u64_checked_add(lhs, rhs) == IF lhs + rhs > WordMax THEN Overflowed ELSE lhs + rhs
add_signed_checked_add_signed(lhs, rhs) ==
    IF lhs + rhs > WordMax \/ lhs + rhs < 0 THEN Overflowed ELSE lhs + rhs

\* the closures of exec, lines 46 and 47: None becomes Err(IntegerOverflow)
checked_add(lhs, rhs) == u64_checked_add(lhs, rhs)
checked_add_signed(lhs, rhs) == add_signed_checked_add_signed(lhs, rhs)

(***************************************************************************)
(* read_stack: the caller's closure.  Unreadable is its Err(()).  A stack  *)
(* [lo, pat] is readable from address `lo` upwards, and the word at an     *)
(* address is that of its slot i = address \div 8 (as in test_basic):      *)
(* 0 ("zero"), 1 ("one"), or the address of the slot two above ("chain").  *)
(***************************************************************************)
Unreadable == 0 - 1
SlotValue(pat, i) ==
    CASE pat = "zero" -> 0
      [] pat = "one" -> 1
      [] pat = "chain" -> (8 * (i + 2)) % (WordMax + 1)
StackWord(stk, addr) == IF addr < stk.lo THEN Unreadable ELSE SlotValue(stk.pat, addr \div 8)
read_stack(stk, addr) == StackWord(stk, addr)

\* `new_sp - 8` of line 161: an unchecked u64 subtraction.  With overflow
\* checks (a debug build) it panics when new_sp < 8, without them it wraps.
ReturnAddressSlot(new_sp) == (new_sp - 8) % (WordMax + 1)
SubPanics(new_sp, overflow_checks) == overflow_checks /\ new_sp < 8

\* ExecTail without the set_bp of line 170
ExecTail_WithoutSetBp(stk, rgs, sp, new_sp, new_bp, bp_addr, overflow_checks) ==
    IF SubPanics(new_sp, overflow_checks) THEN Panicked(rgs, Did(new_sp, bp_addr, NoAddr))
    ELSE LET slot == ReturnAddressSlot(new_sp)
             return_address == read_stack(stk, slot)
             did == Did(new_sp, bp_addr, slot)
         IN  IF return_address = Unreadable THEN CouldNotReadStack(slot, rgs, did)
             ELSE IF return_address = 0 THEN OkNone(rgs, did)
             ELSE IF new_sp = sp /\ return_address = rgs.ip THEN ErrOf("DidNotAdvance", rgs, did)
             ELSE OkSome(return_address, UnwindRegsX86_64(return_address, new_sp, rgs.bp), did)

\* ExecTail with the test of line 165 comparing the stack pointers only when
\* the return address differs from ip
ExecTail_AdvanceTestInverted(stk, rgs, sp, new_sp, new_bp, bp_addr, overflow_checks) ==
    IF SubPanics(new_sp, overflow_checks) THEN Panicked(rgs, Did(new_sp, bp_addr, NoAddr))
    ELSE LET slot == ReturnAddressSlot(new_sp)
             return_address == read_stack(stk, slot)
             did == Did(new_sp, bp_addr, slot)
         IN  IF return_address = Unreadable THEN CouldNotReadStack(slot, rgs, did)
             ELSE IF return_address = 0 THEN OkNone(rgs, did)
             ELSE IF new_sp = sp /\ return_address # rgs.ip THEN ErrOf("DidNotAdvance", rgs, did)
             ELSE OkSome(return_address, UnwindRegsX86_64(return_address, new_sp, new_bp), did)

(***************************************************************************)
(* exec, lines 160-171: what follows the match on the rule.  bp_addr is    *)
(* the address the arm read the caller's bp from (NoAddr when it read      *)
(* none).                                                                  *)
(***************************************************************************)
\* the tail with the registers written before the test for a zero return address
ExecTail_SetsRegistersBeforeZeroTest(stk, rgs, sp, new_sp, new_bp, bp_addr, overflow_checks) ==
    IF SubPanics(new_sp, overflow_checks) THEN Panicked(rgs, Did(new_sp, bp_addr, NoAddr))
    ELSE LET slot == ReturnAddressSlot(new_sp)
             return_address == read_stack(stk, slot)
             did == Did(new_sp, bp_addr, slot)
             written == UnwindRegsX86_64(return_address, new_sp, new_bp)
         IN  IF return_address = Unreadable THEN CouldNotReadStack(slot, rgs, did)
             ELSE IF return_address = 0 THEN OkNone(written, did)
             ELSE IF new_sp = sp /\ return_address = rgs.ip THEN ErrOf("DidNotAdvance", written, did)
             ELSE OkSome(return_address, written, did)

ExecTail(stk, rgs, sp, new_sp, new_bp, bp_addr, overflow_checks) ==
    IF SubPanics(new_sp, overflow_checks) THEN Panicked(rgs, Did(new_sp, bp_addr, NoAddr))
    ELSE LET slot == ReturnAddressSlot(new_sp)
             return_address == read_stack(stk, slot)
             did == Did(new_sp, bp_addr, slot)
         IN  IF return_address = Unreadable THEN CouldNotReadStack(slot, rgs, did)
             ELSE IF return_address = 0 THEN OkNone(rgs, did)
             ELSE IF new_sp = sp /\ return_address = rgs.ip THEN ErrOf("DidNotAdvance", rgs, did)
             ELSE OkSome(return_address, UnwindRegsX86_64(return_address, new_sp, new_bp), did)

NothingDone == Did(NoAddr, NoAddr, NoAddr)

(***************************************************************************)
(* exec, lines 52-55, 56-70, 71-75, 76-100, 101-158: one arm per rule.     *)
(***************************************************************************)
ExecJustReturn(stk, rgs, overflow_checks) ==
    LET sp == rgs.sp
        new_sp == checked_add(sp, 8)
    IN  IF new_sp = Overflowed THEN ErrOf("IntegerOverflow", rgs, NothingDone)
        ELSE ExecTail(stk, rgs, sp, new_sp, rgs.bp, NoAddr, overflow_checks)

\* lines 61-68: the arm's frame pointer walk when it is not the first frame
ExecFpWhenNotFirstFrame(stk, rgs, overflow_checks) ==
    LET sp == rgs.sp
        bp == rgs.bp
        new_sp == checked_add(bp, 16)
    IN  IF new_sp = Overflowed THEN ErrOf("IntegerOverflow", rgs, NothingDone)
        ELSE IF new_sp <= sp
        THEN ErrOf("FramepointerUnwindingMovedBackwards", rgs, Did(new_sp, NoAddr, NoAddr))
        ELSE LET new_bp == read_stack(stk, bp)
             IN  IF new_bp = Unreadable THEN CouldNotReadStack(bp, rgs, Did(new_sp, bp, NoAddr))
                 ELSE ExecTail(stk, rgs, sp, new_sp, new_bp, bp, overflow_checks)

ExecJustReturnIfFirstFrameOtherwiseFp(stk, rgs, is_first_frame, overflow_checks) ==
    IF is_first_frame THEN
        LET sp == rgs.sp
            new_sp == checked_add(sp, 8)
        IN  IF new_sp = Overflowed THEN ErrOf("IntegerOverflow", rgs, NothingDone)
            ELSE ExecTail(stk, rgs, sp, new_sp, rgs.bp, NoAddr, overflow_checks)
    ELSE ExecFpWhenNotFirstFrame(stk, rgs, overflow_checks)

ExecOffsetSp(stk, rgs, sp_offset_by_8, overflow_checks) ==
    LET sp == rgs.sp
        sp_offset == sp_offset_by_8 * 8
        new_sp == checked_add(sp, sp_offset)
    IN  IF new_sp = Overflowed THEN ErrOf("IntegerOverflow", rgs, NothingDone)
        ELSE ExecTail(stk, rgs, sp, new_sp, rgs.bp, NoAddr, overflow_checks)

\* the guard of line 86 without its is_first_frame
IgnoresFailedBpRead_InAnyFrame(is_first_frame, bp_location, sp) == bp_location < sp

\* line 86: the guard of the arm that ignores a failed read
IgnoresFailedBpRead(is_first_frame, bp_location, sp) == is_first_frame /\ bp_location < sp

ExecOffsetSpAndRestoreBp(stk, rgs, sp_offset_by_8, bp_storage_offset_from_sp_by_8, is_first_frame, overflow_checks) ==
    LET sp == rgs.sp
        sp_offset == sp_offset_by_8 * 8
        new_sp == checked_add(sp, sp_offset)
        bp_storage_offset_from_sp == bp_storage_offset_from_sp_by_8 * 8
        bp_location == checked_add_signed(sp, bp_storage_offset_from_sp)
    IN  IF new_sp = Overflowed THEN ErrOf("IntegerOverflow", rgs, NothingDone)
        ELSE IF bp_location = Overflowed
        THEN ErrOf("IntegerOverflow", rgs, Did(new_sp, NoAddr, NoAddr))
        ELSE LET read == read_stack(stk, bp_location)
             IN  IF read # Unreadable
                 THEN ExecTail(stk, rgs, sp, new_sp, read, bp_location, overflow_checks)
                 ELSE IF IgnoresFailedBpRead(is_first_frame, bp_location, sp)
                 THEN ExecTail(stk, rgs, sp, new_sp, rgs.bp, bp_location, overflow_checks)
                 ELSE CouldNotReadStack(bp_location, rgs, Did(new_sp, bp_location, NoAddr))

ExecUseFramePointer(stk, rgs, overflow_checks) ==
    LET sp == rgs.sp
        bp == rgs.bp
    IN  IF bp = 0 THEN OkNone(rgs, NothingDone)
        ELSE LET new_sp == checked_add(bp, 16)
             IN  IF new_sp = Overflowed THEN ErrOf("IntegerOverflow", rgs, NothingDone)
                 ELSE IF new_sp <= sp
                 THEN ErrOf("FramepointerUnwindingMovedBackwards", rgs, Did(new_sp, NoAddr, NoAddr))
                 ELSE LET new_bp == read_stack(stk, bp)
                      IN  IF new_bp = Unreadable
                          THEN CouldNotReadStack(bp, rgs, Did(new_sp, bp, NoAddr))
                          ELSE ExecTail(stk, rgs, sp, new_sp, new_bp, bp, overflow_checks)

(***************************************************************************)
(* UnwindRuleX86_64::exec.                                                 *)
(***************************************************************************)
exec(rule, is_first_frame, rgs, stk, overflow_checks) ==
    CASE rule.tag = "JustReturn" -> ExecJustReturn(stk, rgs, overflow_checks)
      [] rule.tag = "JustReturnIfFirstFrameOtherwiseFp" ->
            ExecJustReturnIfFirstFrameOtherwiseFp(stk, rgs, is_first_frame, overflow_checks)
      [] rule.tag = "OffsetSp" -> ExecOffsetSp(stk, rgs, rule.sp_offset_by_8, overflow_checks)
      [] rule.tag = "OffsetSpAndRestoreBp" ->
            ExecOffsetSpAndRestoreBp(stk, rgs, rule.sp_offset_by_8,
                                     rule.bp_storage_offset_from_sp_by_8,
                                     is_first_frame, overflow_checks)
      [] rule.tag = "UseFramePointer" -> ExecUseFramePointer(stk, rgs, overflow_checks)

(***************************************************************************)
(* Inputs of the exec specification.                                       *)
(***************************************************************************)
\* register values: the 8-aligned words and the words just below them
\* (u64::MAX / 8 * 8 and u64::MAX of test_overflow are among them)
RegValues == {w \in Word : w % 8 \in {0, 7}}
IpValues == {0, 1}

StackPatterns == {"zero", "one", "chain"}
StackLows == {0, 16}
Stacks == {[lo |-> lo, pat |-> pat] : lo \in StackLows, pat \in StackPatterns}

NoCall == [rule |-> JustReturn, is_first_frame |-> FALSE, regs |-> UnwindRegsX86_64(0, 0, 0),
           overflow_checks |-> FALSE]

NoFrameIn == [used |-> FALSE]
NoFrameOut == [used |-> FALSE]
NoSynthIn == [used |-> FALSE]
NoSynthOut == [used |-> FALSE]

(***************************************************************************)
(* SpecExec: one exec call on any register file, stack and rule.           *)
(***************************************************************************)
InitExec ==
    /\ pc = "ready"
    /\ regs \in {UnwindRegsX86_64(ip, sp, bp) : ip \in IpValues, sp \in RegValues, bp \in RegValues}
    /\ stack \in Stacks
    /\ call = NoCall
    /\ result = NotCalled
    /\ frame_in = NoFrameIn
    /\ frame_out = NoFrameOut
    /\ synth_in = NoSynthIn
    /\ synth_out = NoSynthOut

Exec ==
    /\ pc = "ready"
    /\ \E rule \in UnwindRuleX86_64, is_first_frame \in BOOLEAN, overflow_checks \in BOOLEAN :
          LET r == exec(rule, is_first_frame, regs, stack, overflow_checks)
          IN  /\ call' = [rule |-> rule, is_first_frame |-> is_first_frame, regs |-> regs,
                          overflow_checks |-> overflow_checks]
              /\ result' = r
              /\ regs' = r.after
    /\ pc' = "done"
    /\ UNCHANGED <<stack, frame_in, frame_out, synth_in, synth_out>>

NextExec == Exec

SpecExec == InitExec /\ [][NextExec]_vars

(***************************************************************************)
(* Claims about exec, checked under SpecExec.                              *)
(***************************************************************************)
Returned == pc = "done" /\ result.tag # "NotCalled"
sp_before == call.regs.sp
bp_before == call.regs.bp
ip_before == call.regs.ip

\* (new_sp, new_bp) as the rules' documentation gives them, from the
\* registers before the call
DocNewSp ==
    CASE call.rule.tag = "JustReturn" -> sp_before + 8
      [] call.rule.tag = "OffsetSp" -> sp_before + 8 * call.rule.sp_offset_by_8
      [] call.rule.tag = "OffsetSpAndRestoreBp" -> sp_before + 8 * call.rule.sp_offset_by_8
      [] call.rule.tag = "UseFramePointer" -> bp_before + 16
      [] call.rule.tag = "JustReturnIfFirstFrameOtherwiseFp" ->
            IF call.is_first_frame THEN sp_before + 8 ELSE bp_before + 16
DocBpLocation == sp_before + 8 * call.rule.bp_storage_offset_from_sp_by_8
DocNewBpIs(new_bp) ==
    CASE call.rule.tag = "JustReturn" -> new_bp = bp_before
      [] call.rule.tag = "OffsetSp" -> new_bp = bp_before
      [] call.rule.tag = "OffsetSpAndRestoreBp" ->
            (DocBpLocation \in Word /\ StackWord(stack, DocBpLocation) # Unreadable)
                => new_bp = StackWord(stack, DocBpLocation)
      [] call.rule.tag = "UseFramePointer" -> new_bp = StackWord(stack, bp_before)
      [] call.rule.tag = "JustReturnIfFirstFrameOtherwiseFp" ->
            IF call.is_first_frame THEN new_bp = bp_before ELSE new_bp = StackWord(stack, bp_before)

\* C3: whenever exec returns Some(ra), the registers afterwards are ip = ra,
\* sp = new_sp, bp = new_bp, with ra the value read from the stack at
\* new_sp - 8 (a u64 subtraction) and (new_sp, new_bp) given by the rule from
\* the registers before the call.
C3_SomeSetsRegisters ==
    (Returned /\ result.tag = "Some") =>
        /\ regs.ip = result.val
        /\ regs.sp = DocNewSp
        /\ DocNewBpIs(regs.bp)
        /\ result.val = StackWord(stack, (DocNewSp - 8) % (WordMax + 1))

C3_Witness ==
    /\ Returned /\ result.tag = "Some"
    /\ call.rule.tag = "OffsetSpAndRestoreBp"
    /\ call.rule.bp_storage_offset_from_sp_by_8 > 0
    /\ regs.bp # bp_before
    /\ regs.sp > sp_before

\* C4: exec never panics, for any rule, registers, is_first_frame and
\* read_stack.
C4_NeverPanics == Returned => result.tag # "Panic"

\* the call read a return address (from new_sp - 8): the value it read
ReadReturnAddress == result.did.ra_addr # NoAddr /\ StackWord(stack, result.did.ra_addr) # Unreadable
return_address_read == StackWord(stack, result.did.ra_addr)

\* C5 as claimed: every exec call whose computed new_sp equals sp and whose
\* return address read from new_sp - 8 equals regs.ip() returns
\* Err(DidNotAdvance).
C5_DidNotAdvance_AsClaimed ==
    (Returned /\ result.did.new_sp = sp_before /\ ReadReturnAddress
              /\ return_address_read = ip_before)
        => (result.tag = "Err" /\ result.err = "DidNotAdvance")

\* C5 as amended: every exec call whose computed new_sp equals sp and whose
\* return address read from new_sp - 8 is not zero and equals regs.ip()
\* returns Err(DidNotAdvance).
C5_DidNotAdvance ==
    (Returned /\ result.did.new_sp = sp_before /\ ReadReturnAddress
              /\ return_address_read # 0 /\ return_address_read = ip_before)
        => (result.tag = "Err" /\ result.err = "DidNotAdvance")

C5_Witness ==
    /\ Returned /\ result.did.new_sp = sp_before /\ ReadReturnAddress
    /\ return_address_read # 0 /\ return_address_read = ip_before
    /\ result.err = "DidNotAdvance"

\* C6: JustReturnIfFirstFrameOtherwiseFp gives the result and the final
\* registers of JustReturn when is_first_frame, and those of UseFramePointer
\* otherwise (the bp == 0 case included).
C6_SameAsJustReturnOrUseFramePointer ==
    (Returned /\ call.rule.tag = "JustReturnIfFirstFrameOtherwiseFp") =>
        LET other == exec(IF call.is_first_frame THEN JustReturn ELSE UseFramePointer,
                          call.is_first_frame, call.regs, stack, call.overflow_checks)
        IN  /\ result.tag = other.tag
            /\ result.val = other.val
            /\ result.err = other.err
            /\ result.addr = other.addr
            /\ regs = other.after

FailedBpRead == result.did.bp_addr # NoAddr /\ StackWord(stack, result.did.bp_addr) = Unreadable
FailedReturnAddressRead == result.did.ra_addr # NoAddr /\ StackWord(stack, result.did.ra_addr) = Unreadable
IsCouldNotReadStack(a) == result.tag = "Err" /\ result.err = "CouldNotReadStack" /\ result.addr = a

\* C7: a failed stack read is absorbed exactly when the rule is
\* OffsetSpAndRestoreBp, the read is the one at bp_location, is_first_frame
\* holds and bp_location < sp: then new_bp is the current bp and exec goes on
\* to read the return address at new_sp - 8.  Every other failed read, under
\* any rule, returns Err(CouldNotReadStack(addr)) with the address that
\* failed.
C7_FailedReads ==
    Returned =>
        /\ (FailedBpRead /\ call.rule.tag = "OffsetSpAndRestoreBp"
                /\ call.is_first_frame /\ result.did.bp_addr < sp_before)
              => /\ result.did.bp_addr = DocBpLocation
                 /\ result.did.new_sp = DocNewSp
                 /\ result.did.ra_addr = DocNewSp - 8
                 /\ result.tag = "Some" => (regs.bp = bp_before /\ regs.sp = DocNewSp)
        /\ (FailedBpRead /\ ~(call.rule.tag = "OffsetSpAndRestoreBp"
                /\ call.is_first_frame /\ result.did.bp_addr < sp_before))
              => (IsCouldNotReadStack(result.did.bp_addr) /\ result.did.ra_addr = NoAddr)
        /\ FailedReturnAddressRead => IsCouldNotReadStack(result.did.ra_addr)

C7_Witness ==
    /\ Returned /\ FailedBpRead
    /\ call.rule.tag = "OffsetSpAndRestoreBp"
    /\ call.is_first_frame /\ result.did.bp_addr < sp_before
    /\ result.tag = "Some"

C7_WitnessPropagated ==
    /\ Returned /\ FailedBpRead
    /\ call.rule.tag = "OffsetSpAndRestoreBp"
    /\ call.is_first_frame /\ result.did.bp_addr >= sp_before
    /\ IsCouldNotReadStack(result.did.bp_addr)

(***************************************************************************)
(* seh_to_unwind_rule (src/src/x86_64/seh.rs).                             *)
(*                                                                         *)
(* sp_offset and bp_offset are i32.  An i32 addition that overflows panics *)
(* in a build with overflow checks and wraps in one without.               *)
(***************************************************************************)
REG_SIZE == 8
RBP == 5
I32Max == 2147483647
I32Min == 0 - I32Max - 1

I32AddOverflows(a, b) == IF b >= 0 THEN a > I32Max - b ELSE a < I32Min - b
I32WrappingAdd(a, b) ==
    IF ~I32AddOverflows(a, b) THEN a + b
    ELSE IF b >= 0 THEN (a - I32Max - 1) + (b - I32Max - 1)
    ELSE (a + I32Max + 1) + (b + I32Max + 1)
\* `x as i32` of a u32
U32AsI32(u) == IF u <= I32Max THEN u ELSE (u - I32Max - 1) + I32Min
\* `x / 8` of an i32: the quotient rounded towards zero
I32DivBy8(a) == IF a >= 0 THEN a \div 8 ELSE (a + 7) \div 8
\* `x as u16` and `x as i16` of an i32: the low 16 bits
I32AsU16(x) == x % (2^16)
I32AsI16(x) == LET m == x % (2^16) IN IF m >= 2^15 THEN m - 2^16 ELSE m

(***************************************************************************)
(* goblin's UnwindOperation and StackFrameOffset, and what the fallible    *)
(* iterator of a chunk's codes yields: Ok(op), or Err (CodeError).         *)
(***************************************************************************)
PushNonVolatile(reg) == [tag |-> "PushNonVolatile", reg |-> reg, n |-> 0, sfo |-> ""]
Alloc(size) == [tag |-> "Alloc", reg |-> 0, n |-> size, sfo |-> ""]
SetFPRegister == [tag |-> "SetFPRegister", reg |-> 0, n |-> 0, sfo |-> ""]
SaveNonVolatile(reg, sfo, offset) == [tag |-> "SaveNonVolatile", reg |-> reg, n |-> offset, sfo |-> sfo]
SaveXMM == [tag |-> "SaveXMM", reg |-> 0, n |-> 0, sfo |-> ""]
SaveXMM128 == [tag |-> "SaveXMM128", reg |-> 0, n |-> 0, sfo |-> ""]
PushMachineFrame == [tag |-> "PushMachineFrame", reg |-> 0, n |-> 0, sfo |-> ""]
Epilog == [tag |-> "Epilog", reg |-> 0, n |-> 0, sfo |-> ""]
Noop == [tag |-> "Noop", reg |-> 0, n |-> 0, sfo |-> ""]
CodeError == [tag |-> "Err", reg |-> 0, n |-> 0, sfo |-> ""]

\* What the fallible iterator of chunks does when asked for its next item:
\* it yields a chunk, yields Err (ChunkError), or panics (ChunkPanic: the
\* unwrap of seh.rs:143, which runs inside the iterator).
UnwindInfoChunk(codes, frame_register, frame_register_offset) ==
    [kind |-> "chunk", codes |-> codes, frame_register |-> frame_register,
     frame_register_offset |-> frame_register_offset]
ChunkError == [kind |-> "err", codes |-> <<>>, frame_register |-> 0, frame_register_offset |-> 0]
ChunkPanic == [kind |-> "panic", codes |-> <<>>, frame_register |-> 0, frame_register_offset |-> 0]

\* the rule of seh.rs:92-95, which unwind_rule.rs does not declare
UseBasePointer(sp_offset_from_bp_by_8, bp_storage_offset_from_bp_by_8) ==
    [tag |-> "UseBasePointer", sp_offset_from_bp_by_8 |-> sp_offset_from_bp_by_8,
     bp_storage_offset_from_bp_by_8 |-> bp_storage_offset_from_bp_by_8]
NoRule == [tag |-> "NoRule"]

\* bp_offset: Option<i32>
NoOffset == [some |-> FALSE, v |-> 0]
SomeOffset(v) == [some |-> TRUE, v |-> v]

\* lines 40-44: the accumulator; `status` is "run" while the loops go on,
\* "err" once an iterator yielded Err (the `?` of lines 48 and 53 returns
\* it), "panic" once an addition panicked
InitialAccumulator == [use_bp |-> FALSE, sp_offset |-> 0, bp_offset |-> NoOffset, status |-> "run"]

\* `sp_offset += n`, lines 59, 62 and 89
AddToSpOffset(acc, n, overflow_checks) ==
    IF I32AddOverflows(acc.sp_offset, n) /\ overflow_checks
    THEN [acc EXCEPT !.status = "panic"]
    ELSE [acc EXCEPT !.sp_offset = I32WrappingAdd(acc.sp_offset, n)]

\* `-(frame_register_offset as i32)`, line 65
NegatedFrameRegisterOffset(acc, frame_register_offset, overflow_checks) ==
    LET v == U32AsI32(frame_register_offset)
    IN  IF v = I32Min
        THEN IF overflow_checks THEN [acc EXCEPT !.status = "panic"]
             ELSE [acc EXCEPT !.sp_offset = I32Min, !.use_bp = TRUE]
        ELSE [acc EXCEPT !.sp_offset = 0 - v, !.use_bp = TRUE]

\* lines 68-76
SaveNonVolatileStep(acc, op) ==
    IF op.reg = RBP
    THEN IF op.sfo = "RSP" THEN [acc EXCEPT !.bp_offset = SomeOffset(U32AsI32(op.n))]
         ELSE acc
    ELSE acc

\* lines 54-84: the match on one operation
SynthStep(acc, op, chunk, overflow_checks) ==
    CASE op.tag = "Err" -> [acc EXCEPT !.status = "err"]
      [] op.tag = "PushNonVolatile" ->
            AddToSpOffset(IF op.reg = RBP
                          THEN [acc EXCEPT !.bp_offset = SomeOffset(acc.sp_offset)]
                          ELSE acc,
                          REG_SIZE, overflow_checks)
      [] op.tag = "Alloc" -> AddToSpOffset(acc, U32AsI32(op.n), overflow_checks)
      [] op.tag = "SetFPRegister" ->
            NegatedFrameRegisterOffset(acc, chunk.frame_register_offset, overflow_checks)
      [] op.tag = "SaveNonVolatile" -> SaveNonVolatileStep(acc, op)
      [] op.tag = "SaveXMM" -> acc
      [] op.tag = "SaveXMM128" -> acc
      [] op.tag = "PushMachineFrame" -> acc
      [] op.tag = "Epilog" -> acc
      [] op.tag = "Noop" -> acc

\* lines 52-85: the loop over one chunk's codes
RECURSIVE SynthCodes(_, _, _, _)
SynthCodes(acc, codes, chunk, overflow_checks) ==
    IF codes = <<>> \/ acc.status # "run" THEN acc
    ELSE SynthCodes(SynthStep(acc, Head(codes), chunk, overflow_checks),
                    Tail(codes), chunk, overflow_checks)

\* lines 48-86: the loop over the chunks
RECURSIVE SynthChunks(_, _, _)
SynthChunks(acc, chunks, overflow_checks) ==
    IF chunks = <<>> \/ acc.status # "run" THEN acc
    ELSE IF Head(chunks).kind = "err" THEN [acc EXCEPT !.status = "err"]
    ELSE IF Head(chunks).kind = "panic" THEN [acc EXCEPT !.status = "panic"]
    ELSE SynthChunks(SynthCodes(acc, Head(chunks).codes, Head(chunks), overflow_checks),
                     Tail(chunks), overflow_checks)

\* lines 91-106 with the casts replaced by checked conversions is what the
\* TODOs ask for; the code casts
SelectRule(acc) ==
    IF acc.use_bp
    THEN IF ~acc.bp_offset.some THEN NoRule    \* bp_offset.unwrap() panics
         ELSE UseBasePointer(I32AsU16(I32DivBy8(acc.sp_offset)),
                             I32AsI16(I32DivBy8(acc.bp_offset.v)))
    ELSE IF acc.bp_offset.some
         THEN OffsetSpAndRestoreBp(I32AsU16(I32DivBy8(acc.sp_offset)),
                                   I32AsI16(I32DivBy8(acc.bp_offset.v)))
         ELSE OffsetSp(I32AsU16(I32DivBy8(acc.sp_offset)))

\* Result<UnwindRuleX86_64, goblin::error::Error>, or a panic; `acc` is the
\* accumulator when the function ended
SynthResult(tag, rule, acc) == [tag |-> tag, rule |-> rule, acc |-> acc]

seh_to_unwind_rule(chunks, overflow_checks) ==
    LET looped == SynthChunks(InitialAccumulator, chunks, overflow_checks)
    IN  IF looped.status = "err" THEN SynthResult("Err", NoRule, looped)
        ELSE IF looped.status = "panic" THEN SynthResult("Panic", NoRule, looped)
        ELSE LET acc == AddToSpOffset(looped, REG_SIZE, overflow_checks)
             IN  IF acc.status = "panic" THEN SynthResult("Panic", NoRule, acc)
                 ELSE IF SelectRule(acc) = NoRule THEN SynthResult("Panic", NoRule, acc)
                 ELSE SynthResult("Ok", SelectRule(acc), acc)

\* seh.rs:147-159: Ok(ExecRule(rule)), or Err(ConversionError) for any Err
FrameResult(tag, rule, err) == [tag |-> tag, rule |-> rule, err |-> err]
ExecRuleOrConversionError(r) ==
    CASE r.tag = "Ok" -> FrameResult("Ok", r.rule, "")
      [] r.tag = "Err" -> FrameResult("Err", NoRule, "ConversionError")
      [] r.tag = "Panic" -> FrameResult("Panic", NoRule, "")

(***************************************************************************)
(* SpecSynth: one seh_to_unwind_rule call, on any chain of two chunks      *)
(* holding up to MaxOps operations, or on the chunk of one of the tests.   *)
(***************************************************************************)
MaxOps == 2

\* registers: RBX, RBP
RBX == 3
SynthOps ==
    { PushNonVolatile(RBP), PushNonVolatile(RBX),
      Alloc(32), Alloc(524280), Alloc(2147483640),
      SetFPRegister,
      SaveNonVolatile(RBP, "RSP", 80), SaveNonVolatile(RBP, "RSP", 262144),
      SaveNonVolatile(RBP, "FP", 80), SaveNonVolatile(RBX, "RSP", 80),
      SaveXMM, SaveXMM128, PushMachineFrame, Epilog, Noop, CodeError }
FrameRegisterOffsets == {0, 48}

RECURSIVE SeqsUpTo(_, _)
SeqsUpTo(S, n) ==
    IF n = 0 THEN {<<>>}
    ELSE LET shorter == SeqsUpTo(S, n - 1)
         IN  shorter \cup {Append(q, x) : q \in {r \in shorter : Len(r) = n - 1}, x \in S}

\* a chain of two chunks: the first holds the first `split` operations
ChainOf(ops, split, fro1, fro2) ==
    LET cut == IF split < Len(ops) THEN split ELSE Len(ops)
    IN  << UnwindInfoChunk(SubSeq(ops, 1, cut), IF fro1 = 0 THEN 0 ELSE RBP, fro1),
           UnwindInfoChunk(SubSeq(ops, cut + 1, Len(ops)), IF fro2 = 0 THEN 0 ELSE RBP, fro2) >>

\* the chunks of the tests with_sp, with_bp and midstack_bp (seh.rs:179-288)
R12 == 12
R13 == 13
R14 == 14
R15 == 15
RSI == 6
RDI == 7
with_sp ==
    << UnwindInfoChunk(<< SaveNonVolatile(R13, "RSP", 80), SaveNonVolatile(R12, "RSP", 72),
                          SaveNonVolatile(RDI, "RSP", 64), Alloc(32), PushNonVolatile(RSI),
                          PushNonVolatile(RBP), PushNonVolatile(RBX) >>, 0, 0) >>
with_bp ==
    << UnwindInfoChunk(<< Alloc(152), PushNonVolatile(RBX), PushNonVolatile(RSI),
                          PushNonVolatile(RDI), PushNonVolatile(R12), PushNonVolatile(R13),
                          PushNonVolatile(R14), PushNonVolatile(R15), SetFPRegister,
                          PushNonVolatile(RBP) >>, RBP, 0) >>
midstack_bp ==
    << UnwindInfoChunk(<< SaveNonVolatile(RDI, "RSP", 128), SaveNonVolatile(RSI, "RSP", 120),
                          SaveNonVolatile(RBX, "RSP", 112), SetFPRegister, Alloc(64),
                          PushNonVolatile(R15), PushNonVolatile(R14), PushNonVolatile(R13),
                          PushNonVolatile(R12), PushNonVolatile(RBP) >>, RBP, 48) >>

SynthInputs ==
    { [used |-> TRUE, chunks |-> ChainOf(ops, split, fro1, fro2), overflow_checks |-> oc] :
      ops \in SeqsUpTo(SynthOps, MaxOps), split \in 0..MaxOps,
      fro1 \in FrameRegisterOffsets, fro2 \in FrameRegisterOffsets, oc \in BOOLEAN }
    \cup { [used |-> TRUE, chunks |-> c, overflow_checks |-> oc] :
           c \in {with_sp, with_bp, midstack_bp}, oc \in BOOLEAN }

InitSynth ==
    /\ pc = "ready"
    /\ regs = UnwindRegsX86_64(0, 0, 0)
    /\ stack = [lo |-> 0, pat |-> "zero"]
    /\ call = NoCall
    /\ result = NotCalled
    /\ frame_in = NoFrameIn
    /\ frame_out = NoFrameOut
    /\ synth_in \in SynthInputs
    /\ synth_out = NoSynthOut

Synthesize ==
    /\ pc = "ready"
    /\ synth_in.used
    /\ LET r == seh_to_unwind_rule(synth_in.chunks, synth_in.overflow_checks)
       IN  synth_out' = [used |-> TRUE, rule_result |-> r, frame_result |-> ExecRuleOrConversionError(r)]
    /\ pc' = "done"
    /\ UNCHANGED <<regs, stack, call, result, frame_in, frame_out, synth_in>>

NextSynth == Synthesize

SpecSynth == InitSynth /\ [][NextSynth]_vars

(***************************************************************************)
(* Claims about seh_to_unwind_rule, checked under SpecSynth.               *)
(***************************************************************************)
Synthesized == pc = "done" /\ synth_out.used

\* the tests of seh.rs:179-288 pass in the model
SynthTestsPass ==
    Synthesized =>
        /\ synth_in.chunks = with_sp =>
              synth_out.rule_result = SynthResult("Ok", OffsetSpAndRestoreBp(8, 5),
                                                  synth_out.rule_result.acc)
        /\ synth_in.chunks = with_bp =>
              synth_out.rule_result = SynthResult("Ok", UseBasePointer(2, 0),
                                                  synth_out.rule_result.acc)
        /\ synth_in.chunks = midstack_bp =>
              synth_out.rule_result = SynthResult("Ok", UseBasePointer(8, 6),
                                                  synth_out.rule_result.acc)

\* The fold of the claim, over the integers.  A sum beyond I32Max is kept
\* at I32Max: an eighth of it is beyond every 16-bit field either way.
FoldAdd(a, n) == IF a > I32Max - n THEN I32Max ELSE a + n
FoldAddIsBeyondI32(a, n) == a > I32Max - n
FoldStep(st, op, frame_register_offset) ==
    CASE op.tag = "PushNonVolatile" ->
            [st EXCEPT !.bp_offset = IF op.reg = RBP THEN SomeOffset(st.sp_offset) ELSE @,
                       !.sp_offset = FoldAdd(@, 8),
                       !.beyond_i32 = @ \/ FoldAddIsBeyondI32(st.sp_offset, 8)]
      [] op.tag = "Alloc" ->
            [st EXCEPT !.sp_offset = FoldAdd(@, op.n),
                       !.beyond_i32 = @ \/ FoldAddIsBeyondI32(st.sp_offset, op.n)]
      [] op.tag = "SetFPRegister" ->
            [st EXCEPT !.sp_offset = 0 - frame_register_offset, !.use_bp = TRUE]
      [] op.tag = "SaveNonVolatile" /\ op.reg = RBP /\ op.sfo = "RSP" ->
            [st EXCEPT !.bp_offset = SomeOffset(op.n)]
      [] OTHER -> st
RECURSIVE FoldCodes(_, _, _)
FoldCodes(st, codes, frame_register_offset) ==
    IF codes = <<>> THEN st
    ELSE FoldCodes(FoldStep(st, Head(codes), frame_register_offset), Tail(codes),
                   frame_register_offset)
RECURSIVE FoldChunks(_, _)
FoldChunks(st, chunks) ==
    IF chunks = <<>> THEN st
    ELSE FoldChunks(FoldCodes(st, Head(chunks).codes, Head(chunks).frame_register_offset),
                    Tail(chunks))
Folded(chunks) ==
    LET st == FoldChunks([use_bp |-> FALSE, sp_offset |-> 0, bp_offset |-> NoOffset,
                          beyond_i32 |-> FALSE], chunks)
    IN  [st EXCEPT !.sp_offset = FoldAdd(@, 8),
                   !.beyond_i32 = @ \/ FoldAddIsBeyondI32(st.sp_offset, 8)]
FoldedRule(chunks) ==
    LET st == Folded(chunks)
    IN  IF st.use_bp
        THEN IF st.bp_offset.some
             THEN UseBasePointer(st.sp_offset \div 8, st.bp_offset.v \div 8)
             ELSE NoRule
        ELSE IF st.bp_offset.some
             THEN OffsetSpAndRestoreBp(st.sp_offset \div 8, st.bp_offset.v \div 8)
             ELSE OffsetSp(st.sp_offset \div 8)

OnlyOperations(chunks) ==
    \A i \in 1..Len(chunks) :
        chunks[i].kind = "chunk" /\ \A k \in 1..Len(chunks[i].codes) : chunks[i].codes[k].tag # "Err"

\* C8: for every sequence of chunks of unwind operations, seh_to_unwind_rule
\* returns the rule obtained by folding the operations in order and dividing
\* both offsets by 8.
C8_RuleIsFoldOfOperations ==
    (Synthesized /\ OnlyOperations(synth_in.chunks)) =>
        /\ synth_out.rule_result.tag = "Ok"
        /\ synth_out.rule_result.rule = FoldedRule(synth_in.chunks)

\* what C8 leaves when every sum fits an i32, every offset fits its field and
\* SetFPRegister comes with a storage location for RBP: the model agrees with
\* the fold
InRange(chunks) ==
    LET st == Folded(chunks)
    IN  /\ ~st.beyond_i32
        /\ st.sp_offset \div 8 \in 0..(2^16 - 1)
        /\ st.bp_offset.some => st.bp_offset.v \div 8 \in (0 - 2^15)..(2^15 - 1)
        /\ st.use_bp => st.bp_offset.some
RuleIsFoldWhenInRange ==
    (Synthesized /\ OnlyOperations(synth_in.chunks) /\ InRange(synth_in.chunks)) =>
        /\ synth_out.rule_result.tag = "Ok"
        /\ synth_out.rule_result.rule = FoldedRule(synth_in.chunks)

\* the call came to select a rule (line 91) with this accumulator
CameToSelect == Synthesized /\ synth_out.rule_result.acc.status = "run"
final_sp_offset == synth_out.rule_result.acc.sp_offset
final_bp_offset == synth_out.rule_result.acc.bp_offset
IsConversionError ==
    synth_out.frame_result.tag = "Err" /\ synth_out.frame_result.err = "ConversionError"

\* C9: when sp_offset / 8 does not fit the 16-bit unsigned field, or
\* bp_offset / 8 does not fit the 16-bit signed field, rule synthesis fails
\* with ConversionError.
C9_OutOfRangeIsConversionError ==
    (CameToSelect /\ (\/ I32DivBy8(final_sp_offset) \notin 0..(2^16 - 1)
                      \/ /\ final_bp_offset.some
                         /\ I32DivBy8(final_bp_offset.v) \notin (0 - 2^15)..(2^15 - 1)))
        => IsConversionError

\* C10: when the operations contain SetFPRegister (use_bp) and none recorded
\* a storage location for RBP (bp_offset is none), rule synthesis reports
\* ConversionError, and does not panic.
C10_MissingBpOffsetIsConversionError ==
    (CameToSelect /\ synth_out.rule_result.acc.use_bp /\ ~final_bp_offset.some)
        => IsConversionError

\* the variants that `enum UnwindRuleX86_64` declares (unwind_rule.rs:8-22)
UnwindRuleX86_64_variants ==
    {"JustReturn", "JustReturnIfFirstFrameOtherwiseFp", "OffsetSp", "OffsetSpAndRestoreBp",
     "UseFramePointer"}
\* the variants the match of exec has an arm for (unwind_rule.rs:51-159)
exec_match_arms ==
    {"JustReturn", "JustReturnIfFirstFrameOtherwiseFp", "OffsetSp", "OffsetSpAndRestoreBp",
     "UseFramePointer"}
EmittedRule == synth_out.rule_result.rule
EmittedARule == Synthesized /\ synth_out.rule_result.tag = "Ok"

\* C11: every rule that seh_to_unwind_rule emits, for any operation stream,
\* is a variant of UnwindRuleX86_64, and one that exec has an arm for.
C11_EmittedRuleIsExecutable ==
    EmittedARule =>
        /\ EmittedRule.tag \in UnwindRuleX86_64_variants
        /\ EmittedRule.tag \in exec_match_arms

\* what C11 leaves: every emitted rule is OffsetSp, OffsetSpAndRestoreBp or
\* UseBasePointer, and the first two are variants that exec executes
EmittedRuleIsOneOfThree ==
    EmittedARule =>
        /\ EmittedRule.tag \in {"OffsetSp", "OffsetSpAndRestoreBp", "UseBasePointer"}
        /\ EmittedRule.tag # "UseBasePointer" =>
              EmittedRule.tag \in UnwindRuleX86_64_variants \cap exec_match_arms

(***************************************************************************)
(* ArchX86_64::unwind_frame (src/src/x86_64/seh.rs:110-160) and            *)
(* SehUnwinder::unwind_frame (src/src/seh.rs:45-65).                       *)
(*                                                                         *)
(* exception_data is a byte slice: `len` bytes, 4-byte `aligned` or not,   *)
(* holding the RuntimeFunction records `entries` (12 bytes each).          *)
(***************************************************************************)
RuntimeFunctionSize == 12
RuntimeFunction(begin_address, end_address, unwind_info_address) ==
    [begin_address |-> begin_address, end_address |-> end_address,
     unwind_info_address |-> unwind_info_address]

\* LayoutVerified::new_slice: None unless the bytes are a whole number of
\* records and aligned as the record is
new_slice_is_some(data) == data.len % RuntimeFunctionSize = 0 /\ data.aligned

\* slice::partition_point(|f| f.begin_address <= ip): a binary search
RECURSIVE PartitionPointIn(_, _, _, _)
PartitionPointIn(runtime_function, ip, left, right) ==
    IF left >= right THEN left
    ELSE LET mid == left + (right - left) \div 2
         IN  IF runtime_function[mid + 1].begin_address <= ip
             THEN PartitionPointIn(runtime_function, ip, mid + 1, right)
             ELSE PartitionPointIn(runtime_function, ip, left, mid)
partition_point(runtime_function, ip) ==
    PartitionPointIn(runtime_function, ip, 0, Len(runtime_function))
saturating_sub(a, b) == IF a < b THEN 0 ELSE a - b

\* lines 126-128: the index (from 0) of the entry to test
LookupIndex(runtime_function, ip) == saturating_sub(partition_point(runtime_function, ip), 1)

\* line 130: the entry does not cover ip
NotCovered(func, ip) == func.begin_address > ip \/ func.end_address <= ip

(***************************************************************************)
(* The unwind infos behind the RVAs (what rva_mapper.map and               *)
(* UnwindInfo::parse give).  A code is [code_offset, operation]; the       *)
(* operation CodeError is the Err that unwind_codes() yields.              *)
(***************************************************************************)
UnwindCode(code_offset, operation) == [code_offset |-> code_offset, operation |-> operation]
NoChainedInfo == 0 - 1
UnwindInfo(codes, frame_register, frame_register_offset, chained_info) ==
    [kind |-> "info", codes |-> codes, frame_register |-> frame_register,
     frame_register_offset |-> frame_register_offset, chained_info |-> chained_info]
NotMapped == [kind |-> "absent"]       \* rva_mapper.map(rva) is None
Unparsable == [kind |-> "unparsable"]  \* UnwindInfo::parse is Err

Rvas == 0..8
UnwindInfoAt(rva) ==
    CASE rva = 0 -> NotMapped
      [] rva = 1 -> Unparsable
      [] rva = 2 -> UnwindInfo(<< UnwindCode(2, Alloc(32)), UnwindCode(1, PushNonVolatile(RBP)) >>,
                               0, 0, NoChainedInfo)
      [] rva = 3 -> UnwindInfo(<< UnwindCode(2, SetFPRegister), UnwindCode(1, PushNonVolatile(RBX)) >>,
                               RBP, 0, NoChainedInfo)
      [] rva = 4 -> UnwindInfo(<< UnwindCode(2, PushNonVolatile(RBX)) >>, 0, 0, 2)
      [] rva = 5 -> UnwindInfo(<< UnwindCode(1, CodeError) >>, 0, 0, NoChainedInfo)
      [] rva = 6 -> UnwindInfo(<< UnwindCode(1, PushNonVolatile(RBX)) >>, 0, 0, 0)
      [] rva = 7 -> UnwindInfo(<< UnwindCode(1, PushNonVolatile(RBX)) >>, 0, 0, 1)
      \* an array that is not in descending order of code_offset
      [] rva = 8 -> UnwindInfo(<< UnwindCode(1, PushNonVolatile(RBX)), UnwindCode(3, Alloc(32)) >>,
                               0, 0, NoChainedInfo)

\* lines 152-153: skip_while(is_first && code_offset > func_offset), then
\* the operations
RECURSIVE SkipWhileNotYetExecuted(_, _, _)
SkipWhileNotYetExecuted(codes, is_first, func_offset) ==
    IF codes = <<>> THEN <<>>
    ELSE IF Head(codes).operation.tag # "Err" /\ is_first /\ Head(codes).code_offset > func_offset
    THEN SkipWhileNotYetExecuted(Tail(codes), is_first, func_offset)
    ELSE codes
OperationsOf(codes) == [k \in 1..Len(codes) |-> codes[k].operation]

\* lines 148-157: the chunk made of one unwind info of the chain
ChunkOf(info, is_first, func_offset) ==
    UnwindInfoChunk(OperationsOf(SkipWhileNotYetExecuted(info.codes, is_first, func_offset)),
                    info.frame_register, info.frame_register_offset)

\* lines 139-145: the chain after `info`, as the items the iterator gives
RECURSIVE ChainAfter(_, _)
ChainAfter(info, func_offset) ==
    IF info.chained_info = NoChainedInfo THEN <<>>
    ELSE LET next == UnwindInfoAt(info.chained_info)
         IN  CASE next.kind = "absent" -> << ChunkPanic >>
               [] next.kind = "unparsable" -> << ChunkError >>
               [] next.kind = "info" ->
                     << ChunkOf(next, FALSE, func_offset) >> \o ChainAfter(next, func_offset)

\* lines 139-157: the chunks that seh_to_unwind_rule is given, root first
unwind_chain_chunks(unwind_info, func_offset) ==
    << ChunkOf(unwind_info, TRUE, func_offset) >> \o ChainAfter(unwind_info, func_offset)

LookupOutcome(kind, idx) == [kind |-> kind, idx |-> idx]
NoChunks == <<>>
ArchResult(r, lookup, chunks) ==
    [tag |-> r.tag, rule |-> r.rule, err |-> r.err, lookup |-> lookup, chunks |-> chunks]

\* ArchX86_64::unwind_frame.  `lookup` records what lines 122-132 did: the
\* data was "invalid", indexing "panicked", the lookup "failed", or it
\* "found" the entry at index idx (from 0).
ArchX86_64_unwind_frame(exception_data, rel_lookup_address, overflow_checks) ==
    IF ~new_slice_is_some(exception_data)
    THEN ArchResult(FrameResult("Err", NoRule, "InvalidRuntimeFunction"), LookupOutcome("invalid", 0), NoChunks)
    ELSE
    LET runtime_function == exception_data.entries
        ip == rel_lookup_address
        idx == LookupIndex(runtime_function, ip)
    IN  IF idx >= Len(runtime_function)      \* runtime_function[idx] is out of bounds
        THEN ArchResult(FrameResult("Panic", NoRule, ""), LookupOutcome("panicked", idx), NoChunks)
        ELSE
        LET func == runtime_function[idx + 1]
        IN  IF NotCovered(func, ip)
            THEN ArchResult(FrameResult("Err", NoRule, "UnwindInfoForAddressFailed"),
                            LookupOutcome("failed", idx), NoChunks)
            ELSE
            LET func_offset == ip - func.begin_address
                unwind_info == UnwindInfoAt(func.unwind_info_address)
                found == LookupOutcome("found", idx)
            IN  CASE unwind_info.kind = "absent" ->
                        ArchResult(FrameResult("Err", NoRule, "UnwindRvaMappingFailed"), found, NoChunks)
                  [] unwind_info.kind = "unparsable" ->     \* the unwrap of line 138
                        ArchResult(FrameResult("Panic", NoRule, ""), found, NoChunks)
                  [] unwind_info.kind = "info" ->
                        ArchResult(
                            ExecRuleOrConversionError(
                                seh_to_unwind_rule(unwind_chain_chunks(unwind_info, func_offset),
                                                   overflow_checks)),
                            found, unwind_chain_chunks(unwind_info, func_offset))

\* ArchX86_64::rule_if_uncovered_by_seh
rule_if_uncovered_by_seh == JustReturn

\* the wrapper turning every Err into the rule, not UnwindInfoForAddressFailed only
SehUnwinder_unwind_frame_AnyError(arch) ==
    IF arch.tag = "Err"
    THEN FrameResult("Ok", rule_if_uncovered_by_seh, "")
    ELSE FrameResult(arch.tag, arch.rule, arch.err)

\* SehUnwinder::unwind_frame, seh.rs:60-64, given what A::unwind_frame returned
SehUnwinder_unwind_frame(arch) ==
    IF arch.tag = "Err" /\ arch.err = "UnwindInfoForAddressFailed"
    THEN FrameResult("Ok", rule_if_uncovered_by_seh, "")
    ELSE FrameResult(arch.tag, arch.rule, arch.err)

(***************************************************************************)
(* SpecFrame: one SehUnwinder::unwind_frame call on any exception table of *)
(* up to MaxEntries sorted, disjoint entries over the addresses            *)
(* 0..MaxAddr, with or without trailing bytes, aligned or not.             *)
(***************************************************************************)
MaxAddr == 4
MaxEntries == 3

\* address ranges; the unwind_info_address fields are set by ExceptionData
Entries ==
    { RuntimeFunction(b, e, 0) : b \in 0..MaxAddr, e \in 1..(MaxAddr + 1) }
SortedAndDisjoint(t) ==
    /\ \A i \in 1..Len(t) : t[i].begin_address < t[i].end_address
    /\ \A i \in 1..(Len(t) - 1) : t[i].end_address <= t[i + 1].begin_address
\* the tables of up to n entries that are sorted by begin_address and disjoint
RECURSIVE SortedTablesUpTo(_)
SortedTablesUpTo(n) ==
    IF n = 0 THEN {<<>>}
    ELSE LET shorter == SortedTablesUpTo(n - 1)
             longest == {x \in shorter : Len(x) = n - 1}
         IN  shorter \cup { tf \in { Append(t, f) : t \in longest, f \in Entries } :
                            SortedAndDisjoint(tf) }
ExceptionTables == SortedTablesUpTo(MaxEntries)

\* the shapes of the byte slice: whole records, 4 trailing bytes, misaligned
DataShapes == { [trailing |-> 0, aligned |-> TRUE], [trailing |-> 4, aligned |-> TRUE],
                [trailing |-> 0, aligned |-> FALSE] }
\* the entries point at consecutive unwind infos, the first at first_rva
ExceptionData(entries, first_rva, shape) ==
    [len |-> RuntimeFunctionSize * Len(entries) + shape.trailing, aligned |-> shape.aligned,
     entries |-> [i \in 1..Len(entries) |->
                     RuntimeFunction(entries[i].begin_address, entries[i].end_address,
                                     (first_rva + i - 1) % Cardinality(Rvas))]]

InitFrame ==
    /\ pc = "ready"
    /\ regs = UnwindRegsX86_64(0, 0, 0)
    /\ stack = [lo |-> 0, pat |-> "zero"]
    /\ call = NoCall
    /\ result = NotCalled
    /\ frame_in \in { [used |-> TRUE, exception_data |-> ExceptionData(t, first_rva, shape),
                       rel_lookup_address |-> ip] :
                      t \in ExceptionTables, first_rva \in Rvas, shape \in DataShapes,
                      ip \in 0..(MaxAddr + 1) }
    /\ frame_out = NoFrameOut
    /\ synth_in = NoSynthIn
    /\ synth_out = NoSynthOut

UnwindFrame ==
    /\ pc = "ready"
    /\ frame_in.used
    /\ \E overflow_checks \in BOOLEAN :
          LET arch == ArchX86_64_unwind_frame(frame_in.exception_data,
                                              frame_in.rel_lookup_address, overflow_checks)
          IN  frame_out' = [used |-> TRUE, arch |-> arch, outer |-> SehUnwinder_unwind_frame(arch)]
    /\ pc' = "done"
    /\ UNCHANGED <<regs, stack, call, result, frame_in, synth_in, synth_out>>

NextFrame == UnwindFrame

SpecFrame == InitFrame /\ [][NextFrame]_vars

(***************************************************************************)
(* Claims about the lookup and the wrapper, checked under SpecFrame.       *)
(***************************************************************************)
FrameReturned == pc = "done" /\ frame_out.used
table == frame_in.exception_data.entries
lookup_ip == frame_in.rel_lookup_address
WholeTable ==
    frame_in.exception_data.len % 12 = 0 /\ frame_in.exception_data.aligned
        /\ SortedAndDisjoint(table)

FailedWithUnwindInfoForAddressFailed ==
    /\ frame_out.arch.lookup.kind = "failed"
    /\ frame_out.arch.tag = "Err" /\ frame_out.arch.err = "UnwindInfoForAddressFailed"
SelectedCoveringEntry ==
    /\ frame_out.arch.lookup.kind = "found"
    /\ frame_out.arch.lookup.idx + 1 \in 1..Len(table)
    /\ table[frame_out.arch.lookup.idx + 1].begin_address <= lookup_ip
    /\ lookup_ip < table[frame_out.arch.lookup.idx + 1].end_address

\* C1: for every exception table whose length is a multiple of 12 (the empty
\* table included), sorted and disjoint, and every ip, the lookup either
\* selects an entry with begin_address <= ip < end_address or fails with
\* UnwindInfoForAddressFailed; when no entry has begin_address <= ip it fails
\* with UnwindInfoForAddressFailed.
C1_LookupCoversOrFails ==
    (FrameReturned /\ WholeTable) =>
        /\ SelectedCoveringEntry \/ FailedWithUnwindInfoForAddressFailed
        /\ (\A i \in 1..Len(table) : table[i].begin_address > lookup_ip)
              => FailedWithUnwindInfoForAddressFailed

\* C1 for the tables that hold an entry
LookupCoversOrFailsWhenNotEmpty ==
    (FrameReturned /\ WholeTable /\ table # <<>>) =>
        /\ SelectedCoveringEntry \/ FailedWithUnwindInfoForAddressFailed
        /\ (\A i \in 1..Len(table) : table[i].begin_address > lookup_ip)
              => FailedWithUnwindInfoForAddressFailed
        /\ (\E i \in 1..Len(table) : table[i].begin_address <= lookup_ip
                                      /\ lookup_ip < table[i].end_address)
              => SelectedCoveringEntry

OuterIs(tag, rule, err) ==
    frame_out.outer.tag = tag /\ frame_out.outer.rule = rule /\ frame_out.outer.err = err

\* C2: SehUnwinder::unwind_frame returns Ok(ExecRule(JustReturn)) exactly
\* when the architecture-level unwind_frame returns
\* Err(UnwindInfoForAddressFailed); every other result of that call, Ok or
\* any other error, is returned unchanged.
C2_OnlyUncoveredBecomesJustReturn ==
    FrameReturned =>
        /\ OuterIs("Ok", JustReturn, "")
              <=> (frame_out.arch.tag = "Err" /\ frame_out.arch.err = "UnwindInfoForAddressFailed")
        /\ ~(frame_out.arch.tag = "Err" /\ frame_out.arch.err = "UnwindInfoForAddressFailed")
              => OuterIs(frame_out.arch.tag, frame_out.arch.rule, frame_out.arch.err)

C2_Witness ==
    /\ FrameReturned
    /\ frame_out.arch.tag = "Err" /\ frame_out.arch.err = "UnwindInfoForAddressFailed"
    /\ OuterIs("Ok", JustReturn, "")
    /\ table # <<>>

C2_WitnessOtherError ==
    /\ FrameReturned
    /\ frame_out.arch.tag = "Err" /\ frame_out.arch.err = "ConversionError"
    /\ OuterIs("Err", NoRule, "ConversionError")

C2_WitnessRule ==
    /\ FrameReturned
    /\ frame_out.arch.tag = "Ok" /\ frame_out.arch.rule = OffsetSpAndRestoreBp(6, 4)
    /\ OuterIs("Ok", OffsetSpAndRestoreBp(6, 4), "")

(***************************************************************************)
(* Claims about the registers after exec, checked under SpecExec.          *)
(***************************************************************************)
\* C13: whenever exec returns an error or None (a zero return address, or
\* bp == 0 under UseFramePointer), ip, sp and bp keep the values they had
\* before the call; exec writes registers only when it returns
\* Some(return_address).
C13_RegistersKeptUnlessSome ==
    (Returned /\ result.tag \in {"Err", "None"}) =>
        /\ regs.ip = ip_before
        /\ regs.sp = sp_before
        /\ regs.bp = bp_before

\* exec returned None for a zero return address, having computed a new_sp
\* and a new_bp that differ from sp and bp
C13_Witness ==
    /\ Returned /\ result.tag = "None"
    /\ result.did.ra_addr # NoAddr /\ StackWord(stack, result.did.ra_addr) = 0
    /\ result.did.new_sp # sp_before
    /\ result.did.bp_addr # NoAddr /\ StackWord(stack, result.did.bp_addr) # bp_before
    /\ regs = call.regs
\* exec returned an error after it had read the return address
C13_WitnessErr ==
    /\ Returned /\ result.tag = "Err" /\ result.err = "DidNotAdvance"
    /\ regs = call.regs
\* exec returned None under UseFramePointer with bp == 0
C13_WitnessNoBp ==
    /\ Returned /\ result.tag = "None" /\ call.rule.tag = "UseFramePointer" /\ bp_before = 0
    /\ regs = call.regs

(***************************************************************************)
(* Claims about the operations given to the synthesizer, under SpecFrame.  *)
(***************************************************************************)
\* the call found an entry and parsed its unwind info
WalkedChain == FrameReturned /\ frame_out.arch.lookup.kind = "found" /\ frame_out.arch.chunks # NoChunks
found_func == table[frame_out.arch.lookup.idx + 1]
found_func_offset == lookup_ip - found_func.begin_address
fed_chunks == frame_out.arch.chunks

\* the records of the chain from rva on, root first, up to one that is
\* absent or does not parse
RECURSIVE RecordsFrom(_)
RecordsFrom(rva) ==
    LET info == UnwindInfoAt(rva)
    IN  IF info.kind # "info" THEN <<>>
        ELSE << info >> \o (IF info.chained_info = NoChainedInfo THEN <<>>
                            ELSE RecordsFrom(info.chained_info))
RECURSIVE ChainIsWhole(_)
ChainIsWhole(rva) ==
    LET info == UnwindInfoAt(rva)
    IN  /\ info.kind = "info"
        /\ \A k \in 1..Len(info.codes) : info.codes[k].operation.tag # "Err"
        /\ info.chained_info # NoChainedInfo => ChainIsWhole(info.chained_info)
AlreadyExecuted(c) == c.code_offset <= found_func_offset
OperationsIn(codes) == [k \in 1..Len(codes) |-> codes[k].operation]
FedAsClaimed ==
    LET records == RecordsFrom(found_func.unwind_info_address)
    IN  /\ Len(fed_chunks) = Len(records)
        /\ \A i \in 1..Len(records) :
              /\ fed_chunks[i].kind = "chunk"
              /\ fed_chunks[i].codes =
                    OperationsIn(IF i = 1 THEN SelectSeq(records[i].codes, AlreadyExecuted)
                                 ELSE records[i].codes)
DescendingCodeOffsets(codes) ==
    \A k \in 1..(Len(codes) - 1) : codes[k].code_offset >= codes[k + 1].code_offset

\* C12: the operations given to the synthesizer are, from the first record
\* of the chain, exactly the operations with code_offset <= func_offset, and
\* from every chained record all of its operations; the records come in chain
\* order, root first.
C12_FedOperations ==
    (WalkedChain /\ ChainIsWhole(found_func.unwind_info_address)) => FedAsClaimed

\* what C12 leaves: it holds whenever the first record's codes are in
\* descending order of code_offset
FedOperationsWhenDescending ==
    (WalkedChain /\ ChainIsWhole(found_func.unwind_info_address)
        /\ DescendingCodeOffsets(UnwindInfoAt(found_func.unwind_info_address).codes))
    => FedAsClaimed
\* the first record lost an operation, and a chained record kept one with
\* code_offset > func_offset
FedSkippedAndChained ==
    /\ WalkedChain /\ ChainIsWhole(found_func.unwind_info_address) /\ FedAsClaimed
    /\ Len(fed_chunks) = 2
    /\ Len(fed_chunks[1].codes) < Len(UnwindInfoAt(found_func.unwind_info_address).codes)
    /\ \E k \in 1..Len(RecordsFrom(found_func.unwind_info_address)[2].codes) :
          ~AlreadyExecuted(RecordsFrom(found_func.unwind_info_address)[2].codes[k])

(***************************************************************************)
(* SpecLoop: exec called again and again on one register file over an      *)
(* unchanging stack, with any rule and is_first_frame each time, as        *)
(* test_basic does (unwind_rule.rs:180-204).  pc is "ready" until a call   *)
(* has returned Some, "unwinding" after one has; the loop is "done" when a *)
(* call does not return Some.  A call that returns None or an error leaves *)
(* the registers as they were, so a sequence of calls that goes on after   *)
(* such a call moves the registers as the sequence without it does.        *)
(***************************************************************************)
InitLoop ==
    /\ pc = "ready"
    /\ regs \in {UnwindRegsX86_64(ip, sp, bp) : ip \in IpValues, sp \in RegValues, bp \in RegValues}
    /\ stack \in Stacks
    /\ call = NoCall
    /\ result = NotCalled
    /\ frame_in = NoFrameIn
    /\ frame_out = NoFrameOut
    /\ synth_in = NoSynthIn
    /\ synth_out = NoSynthOut

ExecInLoop ==
    /\ pc \in {"ready", "unwinding"}
    /\ \E rule \in UnwindRuleX86_64, is_first_frame \in BOOLEAN, overflow_checks \in BOOLEAN :
          LET r == exec(rule, is_first_frame, regs, stack, overflow_checks)
          IN  /\ result' = r
              /\ regs' = r.after
              /\ pc' = IF r.tag = "Some" THEN "unwinding" ELSE "done"
    /\ UNCHANGED <<stack, call, frame_in, frame_out, synth_in, synth_out>>

NextLoop == ExecInLoop

SpecLoop == InitLoop /\ [][NextLoop]_vars
\* the loop goes on while it can
SpecLoopFair == SpecLoop /\ WF_vars(NextLoop)

(***************************************************************************)
(* Claims about repeated exec calls, checked under SpecLoopFair.           *)
(***************************************************************************)
SpNeverDecreases == regs'.sp >= regs.sp
LaterSuccessIncreasesSp == (pc = "unwinding" /\ pc' = "unwinding") => regs'.sp > regs.sp
LoopEndedWithNoneOrError == pc = "done" /\ result.tag \in {"None", "Err"}

\* C14: over an unchanging stack, in any sequence of exec calls on one
\* register file, sp never decreases and every call that returns Some after
\* the first one that did strictly increases sp; hence a loop repeating exec
\* does not succeed forever: it eventually ends with None or an error.
C14_LoopAdvancesAndEnds ==
    /\ [][SpNeverDecreases /\ LaterSuccessIncreasesSp]_vars
    /\ <>LoopEndedWithNoneOrError

\* what C14 leaves: sp never decreases, a later success strictly increases
\* it, and the loop ends (with None, an error, or a panic)
SpAdvances == [][SpNeverDecreases /\ LaterSuccessIncreasesSp]_vars
LoopEnds == <>(pc = "done")
\* a second call returned Some
SecondSuccess ==
    pc = "unwinding" /\ result.tag = "Some" /\ result.did.new_sp > 8 /\ regs.sp = result.did.new_sp
\* the first call returned Some and left sp as it was
FirstSuccessKeptSp ==
    pc = "unwinding" /\ result.tag = "Some" /\ regs.sp = 0 /\ result.did.new_sp = 0

====
